---- MODULE Spec2Model ----
(***************************************************************************)
(* CTG signal analysis: the Signal loader/segmenter (src/signal.py),       *)
(* the per-segment Component (src/component.py): contraction extraction,   *)
(* acceleration/deceleration detection, early/late classification,         *)
(* variability and the rule-based diagnosis, and the window that browses   *)
(* the Components of a loaded Signal (src/CTGAnalyzerApp.py).              *)
(*                                                                         *)
(* Conventions.  Python arrays are 0-based, TLA+ sequences 1-based: index  *)
(* i of the source is index i+1 here.  Timestamps, FHR and UC samples are  *)
(* integers.  np.median of an even number of samples is the mean of the    *)
(* two middle ones, so medians are carried doubled (Median2 = 2 * median)  *)
(* and every comparison against a median is doubled on both sides.         *)
(* Floating-point results that need not be integers (the R-R proxies, the  *)
(* variabilities) are extended rationals [kind, num, den], kind "fin",     *)
(* "inf", "-inf" or "nan", as IEEE arithmetic under numpy produces them.   *)
(***************************************************************************)
EXTENDS Integers, Sequences, FiniteSets, TLC

VARIABLES
    data,           \* Signal.data: the loaded rows, each [time, FHR, UC]
    status,         \* Signal.__init__: "unloaded", "loaded" or the exception raised
    sampling_rate,  \* Signal.sampling_rate (extended rational)
    components,     \* Signal.components: sequence of Component records
    result,         \* what the last Signal.get_component call returned or raised
    self,           \* the Component under analysis
    events,         \* what the last detect_events call on self returned
    analysis,       \* what the last get_analysis_results call on self returned
    diagnosis,      \* what the last diagnose_condition call on self returned
    app             \* the CTGAnalyzerApp window: signal, current_component_index

vars ==
    <<data, status, sampling_rate, components, result, self, events, analysis,
      diagnosis, app>>

(***************************************************************************)
(* Bounds of the model.                                                    *)
(***************************************************************************)
MaxLenDetect == 4     \* samples per Component, detection family (three levels)
LenPairs == 8         \* samples per Component, detection family (two levels)
LenClassify == 8      \* samples per Component, classification family
MaxLenShort == 7      \* samples per Component, short classification family
MaxLenContr == 6      \* samples per Component, contraction family
MaxLenDiag == 5       \* samples per Component, diagnosis family
ClassifyStep == 20    \* sampling period (seconds) of the uniformly sampled families
MaxRows == 5          \* rows of a loaded file
MaxIndex == 3         \* get_component is called with -MaxIndex .. MaxIndex

(***************************************************************************)
(* Program constants.                                                      *)
(***************************************************************************)
threshold_high == 160
threshold_low == 110
min_duration == 15
max_duration == 120
min_amplitude == 15
window_size == 120
component_duration == 1000
default_component_duration == 120   \* _create_components(self, component_duration=120)
MsPerMinute == 60000

None == [kind |-> "None"]

Range(s) == {s[i] : i \in 1..Len(s)}

(***************************************************************************)
(* np.median, doubled.  The k-th smallest sample is the value with fewer   *)
(* than k samples below it and at least k samples not above it.            *)
(***************************************************************************)
KthSmallest(s, k) ==
    CHOOSE v \in Range(s) :
        /\ Cardinality({i \in 1..Len(s) : s[i] < v}) < k
        /\ Cardinality({i \in 1..Len(s) : s[i] <= v}) >= k

Median2(s) ==
    IF Len(s) % 2 = 1
    THEN 2 * KthSmallest(s, (Len(s) + 1) \div 2)
    ELSE KthSmallest(s, Len(s) \div 2) + KthSmallest(s, Len(s) \div 2 + 1)

(***************************************************************************)
(* Component._get_contractions: one left-to-right scan.  st is the loop's  *)
(* state: in_contraction, start_time, peak_time, peak_value, contractions. *)
(* start_time, peak_time and peak_value are only read while in_contraction *)
(* (where the code holds None / -inf they are 0 here and never read).      *)
(***************************************************************************)
ContractionStep(st, current_value, current_time, baseline2) ==
    IF ~st.in_contraction /\ 2 * current_value > baseline2
    THEN [st EXCEPT !.in_contraction = TRUE,
                    !.start_time = current_time,
                    !.peak_value = current_value,
                    !.peak_time = current_time]
    ELSE IF st.in_contraction /\ current_value > st.peak_value
    THEN [st EXCEPT !.peak_value = current_value,
                    !.peak_time = current_time]
    ELSE IF st.in_contraction /\ 2 * current_value <= baseline2
    THEN [in_contraction |-> FALSE, start_time |-> 0, peak_time |-> 0,
          peak_value |-> 0,
          contractions |->
              IF st.peak_time > st.start_time /\ current_time > st.peak_time
              THEN Append(st.contractions,
                          <<st.start_time, st.peak_time, current_time>>)
              ELSE st.contractions]
    ELSE st

RECURSIVE ContractionScan(_, _, _, _, _)
ContractionScan(time, uc, baseline2, i, st) ==
    IF i > Len(uc) THEN st
    ELSE ContractionScan(time, uc, baseline2, i + 1,
                         ContractionStep(st, uc[i], time[i], baseline2))

GetContractions(time, uc) ==
    LET st == ContractionScan(time, uc, Median2(uc), 1,
                  [in_contraction |-> FALSE, start_time |-> 0, peak_time |-> 0,
                   peak_value |-> 0, contractions |-> <<>>])
    IN  IF st.in_contraction /\ st.peak_time > st.start_time
        THEN Append(st.contractions,
                    <<st.start_time, st.peak_time, time[Len(time)]>>)
        ELSE st.contractions

(***************************************************************************)
(* Component.__init__                                                      *)
(***************************************************************************)
NewComponent(time, fetal_heart_rate, uterine_contraction) ==
    [time |-> time,
     fetal_heart_rate |-> fetal_heart_rate,
     uterine_contraction |-> uterine_contraction,
     contractions |-> GetContractions(time, uterine_contraction)]

(***************************************************************************)
(* The point-wise criteria of _detect_accelerations/_detect_decelerations. *)
(***************************************************************************)
AccelCriterion(v, baseline2) ==
    v > threshold_high /\ 2 * v - baseline2 >= 2 * min_amplitude

DecelCriterion(v, baseline2) ==
    v < threshold_low /\ baseline2 - 2 * v >= 2 * min_amplitude

(***************************************************************************)
(* The inner while loop: the first j > i (0-based j = i + 1 ..) at which   *)
(* the criterion fails or the array ends.  RunEnd returns j - 1 + 1, the   *)
(* 1-based index of the run's last sample.                                 *)
(***************************************************************************)
RECURSIVE RunEnd(_, _, _, _)
RunEnd(fhr, baseline2, accel, j) ==
    IF j <= Len(fhr) /\ (IF accel THEN AccelCriterion(fhr[j], baseline2)
                                  ELSE DecelCriterion(fhr[j], baseline2))
    THEN RunEnd(fhr, baseline2, accel, j + 1)
    ELSE j - 1

(***************************************************************************)
(* Faulty variants of the loop body, used to show that the properties      *)
(* below depend on it: one that forgets to record last_end_time, one that  *)
(* requires a duration strictly above min_duration.                        *)
(***************************************************************************)
DetectStepForgetsLastEnd(time, fhr, baseline2, accel, i, st) ==
    IF (IF accel THEN AccelCriterion(fhr[i], baseline2)
                 ELSE DecelCriterion(fhr[i], baseline2))
    THEN LET jm1 == RunEnd(fhr, baseline2, accel, i + 1)
             duration == time[jm1] - time[i]
         IN  IF min_duration <= duration /\ duration < max_duration
             THEN [regions |-> Append(st.regions, <<time[i], time[jm1]>>),
                   last_end_time |-> <<>>]
             ELSE st
    ELSE st

DetectStepStrictMinimum(time, fhr, baseline2, accel, i, st) ==
    IF st.last_end_time # <<>> /\ time[i] < st.last_end_time[1]
    THEN st
    ELSE IF (IF accel THEN AccelCriterion(fhr[i], baseline2)
                      ELSE DecelCriterion(fhr[i], baseline2))
    THEN LET jm1 == RunEnd(fhr, baseline2, accel, i + 1)
             duration == time[jm1] - time[i]
         IN  IF min_duration < duration /\ duration < max_duration
             THEN [regions |-> Append(st.regions, <<time[i], time[jm1]>>),
                   last_end_time |-> <<time[jm1]>>]
             ELSE st
    ELSE st

(***************************************************************************)
(* One iteration of "for i in range(len(fhr) - 1)".  The loop variable is  *)
(* rebound by the for statement on every iteration, so the assignment      *)
(* "i = j - 1" at the end of the body has no effect on the next i.         *)
(* last_end_time is <<>> for float('-inf') and <<t>> for a timestamp.      *)
(***************************************************************************)
DetectStep(time, fhr, baseline2, accel, i, st) ==
    IF st.last_end_time # <<>> /\ time[i] < st.last_end_time[1]
    THEN st
    ELSE IF (IF accel THEN AccelCriterion(fhr[i], baseline2)
                      ELSE DecelCriterion(fhr[i], baseline2))
    THEN LET jm1 == RunEnd(fhr, baseline2, accel, i + 1)
             duration == time[jm1] - time[i]
         IN  IF min_duration <= duration /\ duration < max_duration
             THEN [regions |-> Append(st.regions, <<time[i], time[jm1]>>),
                   last_end_time |-> <<time[jm1]>>]
             ELSE st
    ELSE st

RECURSIVE DetectLoop(_, _, _, _, _, _)
DetectLoop(time, fhr, baseline2, accel, i, st) ==
    IF i > Len(fhr) - 1 THEN st.regions
    ELSE DetectLoop(time, fhr, baseline2, accel, i + 1,
                    DetectStep(time, fhr, baseline2, accel, i, st))

DetectAccelerations(c) ==
    DetectLoop(c.time, c.fetal_heart_rate, Median2(c.fetal_heart_rate), TRUE, 1,
               [regions |-> <<>>, last_end_time |-> <<>>])

DetectDecelerations(c) ==
    DetectLoop(c.time, c.fetal_heart_rate, Median2(c.fetal_heart_rate), FALSE, 1,
               [regions |-> <<>>, last_end_time |-> <<>>])

(***************************************************************************)
(* _detect_early_decelerations / _detect_late_decelerations.  The inner    *)
(* for loop over the contractions: the break sits inside the inner if, so  *)
(* an overlapping contraction that does not satisfy the peak test does not *)
(* stop the scan.                                                          *)
(***************************************************************************)
\* faulty variant: either half of the overlap test suffices
OverlapsEitherSide(d, contr) == d[1] <= contr[3] \/ d[2] >= contr[1]

Overlaps(d, contr) == d[1] <= contr[3] /\ d[2] >= contr[1]

RECURSIVE EarlyScan(_, _, _)
EarlyScan(d, contractions, k) ==
    IF k > Len(contractions) THEN FALSE
    ELSE IF Overlaps(d, contractions[k]) /\ d[1] <= contractions[k][2] THEN TRUE
    ELSE EarlyScan(d, contractions, k + 1)

RECURSIVE LateScan(_, _, _)
LateScan(d, contractions, k) ==
    IF k > Len(contractions) THEN FALSE
    ELSE IF Overlaps(d, contractions[k]) /\ d[1] > contractions[k][2] THEN TRUE
    ELSE LateScan(d, contractions, k + 1)

DetectEarlyDecelerations(c, deceleration_regions) ==
    SelectSeq(deceleration_regions, LAMBDA d : EarlyScan(d, c.contractions, 1))

DetectLateDecelerations(c, deceleration_regions) ==
    SelectSeq(deceleration_regions, LAMBDA d : LateScan(d, c.contractions, 1))

(***************************************************************************)
(* Component.detect_events                                                 *)
(***************************************************************************)
DetectEvents(c) ==
    LET deceleration_regions == DetectDecelerations(c)
    IN  [accelerations |-> DetectAccelerations(c),
         decelerations |-> deceleration_regions,
         early_decelerations |-> DetectEarlyDecelerations(c, deceleration_regions),
         late_decelerations |-> DetectLateDecelerations(c, deceleration_regions)]

(***************************************************************************)
(* Extended rationals: the floating-point values the variability code      *)
(* produces.  Fin(n, d) is n / d in lowest terms with d > 0.               *)
(***************************************************************************)
Abs(x) == IF x < 0 THEN -x ELSE x

RECURSIVE GCD(_, _)
GCD(a, b) == IF b = 0 THEN a ELSE GCD(b, a % b)

Fin(n, d) ==
    LET g == GCD(Abs(n), Abs(d))
        sgn == IF d < 0 THEN -1 ELSE 1
    IN  [kind |-> "fin", num |-> sgn * (n \div g), den |-> sgn * (d \div g)]

PosInf == [kind |-> "inf", num |-> 0, den |-> 1]
NegInf == [kind |-> "-inf", num |-> 0, den |-> 1]
NaN == [kind |-> "nan", num |-> 0, den |-> 1]

XNeg(a) ==
    CASE a.kind = "fin" -> Fin(-a.num, a.den)
      [] a.kind = "inf" -> NegInf
      [] a.kind = "-inf" -> PosInf
      [] OTHER -> NaN

XAdd(a, b) ==
    CASE a.kind = "nan" \/ b.kind = "nan" -> NaN
      [] a.kind = "fin" /\ b.kind = "fin" ->
            Fin(a.num * b.den + b.num * a.den, a.den * b.den)
      [] a.kind = "fin" -> b
      [] b.kind = "fin" -> a
      [] a.kind = b.kind -> a
      [] OTHER -> NaN

XSub(a, b) == XAdd(a, XNeg(b))

XAbs(a) ==
    CASE a.kind = "fin" -> Fin(Abs(a.num), a.den)
      [] a.kind = "nan" -> NaN
      [] OTHER -> PosInf

\* a / n for an integer n >= 0; 0 / 0 and x / 0 as numpy's mean of nothing: nan
XDivInt(a, n) ==
    CASE n = 0 -> NaN
      [] a.kind = "fin" -> Fin(a.num, a.den * n)
      [] OTHER -> a

\* a < k and a > k for an integer k; every comparison with nan is false
XLessInt(a, k) ==
    CASE a.kind = "fin" -> a.num < k * a.den
      [] a.kind = "-inf" -> TRUE
      [] OTHER -> FALSE

XGreaterInt(a, k) ==
    CASE a.kind = "fin" -> a.num > k * a.den
      [] a.kind = "inf" -> TRUE
      [] OTHER -> FALSE

(***************************************************************************)
(* Component.calculate_short_term_variability.  The list comprehension     *)
(* converts every sample: 60000 / bpm.  The samples are numpy scalars      *)
(* (Signal passes column.values), so 60000 / 0 is +inf, not an exception.  *)
(***************************************************************************)
RRInterval(bpm) ==
    IF bpm = 0 THEN PosInf ELSE Fin(MsPerMinute, bpm)

RRIntervals(fhr) == [i \in 1..Len(fhr) |-> RRInterval(fhr[i])]

\* np.abs(np.diff(x))
AbsDiff(x) == [i \in 1..(Len(x) - 1) |-> XAbs(XSub(x[i + 1], x[i]))]

RECURSIVE XSum(_, _)
XSum(x, i) == IF i > Len(x) THEN Fin(0, 1) ELSE XAdd(x[i], XSum(x, i + 1))

\* np.mean
XMean(x) == XDivInt(XSum(x, 1), Len(x))

CalculateShortTermVariability(c) ==
    XMean(AbsDiff(RRIntervals(c.fetal_heart_rate)))

(***************************************************************************)
(* Component.calculate_long_term_variability.  np.std of a window w is the *)
(* square root of its population variance                                  *)
(* (n * sum(x^2) - sum(x)^2) / n^2.  The result is carried as the sequence *)
(* of the qualifying windows' variances: it stands for the mean of their   *)
(* square roots, and for 0 when no window qualifies.                       *)
(***************************************************************************)
RECURSIVE Sum(_, _)
Sum(s, i) == IF i > Len(s) THEN 0 ELSE s[i] + Sum(s, i + 1)

Variance(w) ==
    LET n == Len(w)
        sq == [i \in 1..n |-> w[i] * w[i]]
    IN  Fin(n * Sum(sq, 1) - Sum(w, 1) * Sum(w, 1), n * n)

\* the windows fhr[i : i + window_size] for i in range(0, len(fhr), window_size)
Windows(fhr) ==
    [k \in 1..((Len(fhr) + window_size - 1) \div window_size) |->
        SubSeq(fhr, (k - 1) * window_size + 1,
               IF k * window_size < Len(fhr) THEN k * window_size ELSE Len(fhr))]

CalculateLongTermVariability(c) ==
    LET qualifying == SelectSeq(Windows(c.fetal_heart_rate), LAMBDA w : Len(w) > 1)
    IN  [variances |-> [k \in 1..Len(qualifying) |-> Variance(qualifying[k])]]

\* ltv < k and ltv > k for an integer k >= 0.  With one window the mean of
\* the standard deviations is that window's, and std < k iff variance < k^2.
\* Two or more windows need more than window_size samples.
LtvLessInt(ltv, k) ==
    CASE Len(ltv.variances) = 0 -> 0 < k
      [] Len(ltv.variances) = 1 -> XLessInt(ltv.variances[1], k * k)

LtvGreaterInt(ltv, k) ==
    CASE Len(ltv.variances) = 0 -> 0 > k
      [] Len(ltv.variances) = 1 -> XGreaterInt(ltv.variances[1], k * k)

(***************************************************************************)
(* The rule chains of the diagnosis.                                       *)
(***************************************************************************)
\* Component.calculate_fhr_baseline, doubled
CalculateFhrBaseline2(c) == Median2(c.fetal_heart_rate)

\* faulty variant: the thresholds themselves are outside the normal band
AssessBaselineExcludesThresholds(baseline2) ==
    IF 2 * 110 < baseline2 /\ baseline2 < 2 * 160 THEN "Normal"
    ELSE IF baseline2 <= 2 * 110 THEN "Bradycardia"
    ELSE "Tachycardia"

AssessBaseline(baseline2) ==
    IF 2 * 110 <= baseline2 /\ baseline2 <= 2 * 160 THEN "Normal"
    ELSE IF baseline2 < 2 * 110 THEN "Bradycardia"
    ELSE "Tachycardia"

AssessVariability(short_term_var, long_term_var) ==
    IF XLessInt(short_term_var, 5) THEN "Low / Possible fetal distress"
    ELSE IF XGreaterInt(short_term_var, 20) THEN "High / Severe stress"
    ELSE IF LtvLessInt(long_term_var, 10) THEN "Low / Possible fetal distress"
    ELSE IF LtvGreaterInt(long_term_var, 25) THEN "High / Possible acute stress"
    ELSE "Good Variability"

AssessAccelerations(has_accelerations) ==
    IF has_accelerations THEN "Normal Accelerations" ELSE "Absent Accelerations"

AssessDecelerations(has_decelerations, has_early_decelerations, has_late_deceleration) ==
    IF ~has_decelerations THEN "No Decelerations"
    ELSE IF has_early_decelerations
    THEN "Early Decelerations - Head Compressions Detected"
    ELSE IF has_late_deceleration
    THEN "Variable Decelerations - Fetal Hypoxia Detected"
    ELSE "Concerning Decelerations"

Bool2Int(b) == IF b THEN 1 ELSE 0

VerdictOfCount(concern_count) ==
    IF concern_count = 0 THEN "Normal Fetal Condition"
    ELSE IF concern_count <= 1 THEN "Mild Concerns"
    ELSE IF concern_count <= 3 THEN "Moderate Concerns"
    ELSE "Significant Concerns"

\* the four statuses: baseline, variability, acceleration, deceleration
CombineAssessments(baseline_status, variability_status, accel_status, decel_status) ==
    VerdictOfCount(Bool2Int(baseline_status # "Normal")
                   + Bool2Int(variability_status = "Reduced Variability")
                   + Bool2Int(accel_status = "Concerning Late Accelerations")
                   + Bool2Int(decel_status # "No Decelerations"))

\* Component.diagnose_condition
DiagnoseCondition(c, analysis_results) ==
    LET baseline_status == AssessBaseline(CalculateFhrBaseline2(c))
        variability_status ==
            AssessVariability(analysis_results.ShortTermVariability,
                              analysis_results.LongTermVariability)
        acceleration_status == AssessAccelerations(analysis_results.Accelerations)
        deceleration_status ==
            AssessDecelerations(analysis_results.Decelerations,
                                analysis_results.EarlyDecelerations,
                                analysis_results.LateDecelerations)
    IN  [Baseline |-> baseline_status,
         Variability |-> variability_status,
         Accelerations |-> acceleration_status,
         Decelerations |-> deceleration_status,
         Overall |-> CombineAssessments(baseline_status, variability_status,
                                        acceleration_status, deceleration_status)]

\* Component.get_analysis_results
GetAnalysisResults(c) ==
    LET ev == DetectEvents(c)
        analysis_results ==
            [FHRBaseline2 |-> CalculateFhrBaseline2(c),
             ShortTermVariability |-> CalculateShortTermVariability(c),
             LongTermVariability |-> CalculateLongTermVariability(c),
             Accelerations |-> Len(ev.accelerations) > 0,
             Decelerations |-> Len(ev.decelerations) > 0,
             EarlyDecelerations |-> Len(ev.early_decelerations) > 0,
             LateDecelerations |-> Len(ev.late_decelerations) > 0]
    IN  [kind |-> "results",
         values |-> analysis_results,
         Results |-> DiagnoseCondition(c, analysis_results)]

(***************************************************************************)
(* Signal._estimate_sampling_rate: 1 / median of the consecutive time      *)
(* differences.  diff() yields NaN for the first row, which median skips;  *)
(* with fewer than two rows the median is nan.  1 / 0.0 on a numpy float   *)
(* is +inf.                                                                *)
(***************************************************************************)
TimeDiffs(rows) == [i \in 1..(Len(rows) - 1) |-> rows[i + 1].time - rows[i].time]

EstimateSamplingRate(rows) ==
    IF Len(rows) < 2 THEN NaN
    ELSE LET m2 == Median2(TimeDiffs(rows))
         IN  IF m2 = 0 THEN PosInf ELSE Fin(2, m2)

(***************************************************************************)
(* int(x) of a float: truncation toward zero; ValueError for nan and       *)
(* OverflowError for an infinity.                                          *)
(***************************************************************************)
Trunc(n, d) == IF n >= 0 THEN n \div d ELSE -((-n) \div d)

Column(rows, f) == [i \in 1..Len(rows) |-> rows[i][f]]

\* Component(time = window['time'].values, ...) of one window of rows
ComponentOf(rows) ==
    NewComponent(Column(rows, "time"), Column(rows, "FHR"), Column(rows, "UC"))

\* data.iloc[i : i + samples_per_component], i 0-based
Window(rows, i, samples_per_component) ==
    SubSeq(rows, i + 1,
           IF i + samples_per_component < Len(rows)
           THEN i + samples_per_component ELSE Len(rows))

\* faulty variant: the trailing short window is kept
RECURSIVE CreateLoopKeepsShortWindow(_, _, _, _)
CreateLoopKeepsShortWindow(rows, samples_per_component, i, acc) ==
    IF i >= Len(rows) THEN acc
    ELSE CreateLoopKeepsShortWindow(
            rows, samples_per_component, i + samples_per_component,
            Append(acc, ComponentOf(Window(rows, i, samples_per_component))))

\* for i in range(0, len(data), samples_per_component), samples_per_component > 0
RECURSIVE CreateLoop(_, _, _, _)
CreateLoop(rows, samples_per_component, i, acc) ==
    IF i >= Len(rows) THEN acc
    ELSE LET component_data == Window(rows, i, samples_per_component)
         IN  CreateLoop(rows, samples_per_component, i + samples_per_component,
                        IF Len(component_data) = samples_per_component
                        THEN Append(acc, ComponentOf(component_data))
                        ELSE acc)

SamplesPerComponent(rate, duration) == Trunc(duration * rate.num, rate.den)

(***************************************************************************)
(* Signal._create_components: the components, or the exception raised.     *)
(* range() with a zero step raises ValueError; with a negative step and    *)
(* start 0 <= stop it is empty.                                            *)
(***************************************************************************)
CreateComponents(rows, rate, duration) ==
    CASE rate.kind = "nan" -> [raised |-> "ValueError", components |-> <<>>]
      [] rate.kind \in {"inf", "-inf"} ->
            [raised |-> "OverflowError", components |-> <<>>]
      [] OTHER ->
            LET s == SamplesPerComponent(rate, duration)
            IN  IF s = 0 THEN [raised |-> "ValueError", components |-> <<>>]
                ELSE IF s < 0 THEN [raised |-> "", components |-> <<>>]
                ELSE [raised |-> "",
                      components |-> CreateLoop(rows, s, 0, <<>>)]

(***************************************************************************)
(* Signal.get_component: self.components[index], a Python list index:      *)
(* -len <= index < 0 counts from the end, anything else outside            *)
(* [0, len) raises IndexError.                                             *)
(***************************************************************************)
GetComponent(comps, index) ==
    IF 0 <= index /\ index < Len(comps)
    THEN [kind |-> "Component", index |-> index, value |-> comps[index + 1]]
    ELSE IF -Len(comps) <= index /\ index < 0
    THEN [kind |-> "Component", index |-> index,
          value |-> comps[Len(comps) + index + 1]]
    ELSE [kind |-> "IndexError", index |-> index, value |-> None]

GetTotalComponents(comps) == Len(comps)

(***************************************************************************)
(* Input families.  A family is the set of row sequences of the given      *)
(* lengths whose first timestamp is 0, whose consecutive timestamp         *)
(* differences are drawn from Steps and whose samples are drawn from       *)
(* FhrVals and UcVals.                                                     *)
(***************************************************************************)
RECURSIVE TimesOf(_, _)
TimesOf(dts, n) ==
    IF n = 1 THEN <<0>>
    ELSE LET t == TimesOf(dts, n - 1) IN Append(t, t[n - 1] + dts[n - 1])

RowsOf(n, dts, fhr, uc) ==
    IF n = 0 THEN <<>>
    ELSE LET t == TimesOf(dts, n)
         IN  [i \in 1..n |-> [time |-> t[i], FHR |-> fhr[i], UC |-> uc[i]]]

\* The state before Signal.__init__ runs on a file holding rows
InitSignalOn(rows) ==
    /\ data = rows
    /\ status = "unloaded"
    /\ sampling_rate = None
    /\ components = <<>>
    /\ result = None
    /\ self = None
    /\ events = None
    /\ analysis = None
    /\ diagnosis = None
    /\ app = None

\* The state after Component.__init__ ran on the columns of rows
InitComponentOn(rows) ==
    /\ data = rows
    /\ status = "unloaded"
    /\ sampling_rate = None
    /\ components = <<>>
    /\ result = None
    /\ self = ComponentOf(rows)
    /\ events = None
    /\ analysis = None
    /\ diagnosis = None
    /\ app = None

(***************************************************************************)
(* Actions on a Signal.                                                    *)
(***************************************************************************)
\* Signal.__init__ on a file holding the rows of data
Load ==
    /\ status = "unloaded"
    /\ LET rate == EstimateSamplingRate(data)
           made == CreateComponents(data, rate, component_duration)
       IN  /\ sampling_rate' = rate
           /\ components' = made.components
           /\ status' = IF made.raised = "" THEN "loaded" ELSE made.raised
    /\ UNCHANGED <<data, result, self, events, analysis, diagnosis, app>>

\* Signal.get_component(index) on a loaded Signal
GetComponentCall ==
    /\ status = "loaded"
    /\ \E index \in (-MaxIndex)..MaxIndex :
        result' = GetComponent(components, index)
    /\ UNCHANGED <<data, status, sampling_rate, components, self, events, analysis,
                   diagnosis, app>>

(***************************************************************************)
(* Actions on a Component.                                                 *)
(***************************************************************************)
\* faulty variant: the median is taken by sorting the FHR array in place
QueriedComponentSortsInPlace(c) ==
    [c EXCEPT !.fetal_heart_rate =
        [k \in 1..Len(c.fetal_heart_rate) |-> KthSmallest(c.fetal_heart_rate, k)]]

\* The Component after detect_events, get_analysis_results or
\* diagnose_condition returned: none of them assigns an attribute of self,
\* and np.median, np.diff, np.abs, np.mean and np.var return new arrays.
QueriedComponent(c) == c

\* self.detect_events()
DetectEventsCall ==
    /\ self # None
    /\ events' = [kind |-> "events", values |-> DetectEvents(self)]
    /\ self' = QueriedComponent(self)
    /\ UNCHANGED <<data, status, sampling_rate, components, result, analysis,
                   diagnosis, app>>

\* self.get_analysis_results()
GetAnalysisResultsCall ==
    /\ self # None
    /\ analysis' = GetAnalysisResults(self)
    /\ self' = QueriedComponent(self)
    /\ UNCHANGED <<data, status, sampling_rate, components, result, events,
                   diagnosis, app>>

\* self.diagnose_condition(analysis_results) on the dictionary that
\* get_analysis_results returned
DiagnoseConditionCall ==
    /\ self # None
    /\ analysis # None
    /\ diagnosis' = [kind |-> "diagnosis",
                     values |-> DiagnoseCondition(self, analysis.values)]
    /\ self' = QueriedComponent(self)
    /\ UNCHANGED <<data, status, sampling_rate, components, result, events,
                   analysis, app>>

(***************************************************************************)
(* Specifications: one per input family.                                   *)
(***************************************************************************)
\* Loading and indexing a Signal.
SignalSteps == {0, 250, 500, 1000}
SignalSamples == {<<140, 10>>, <<150, 20>>}   \* (FHR, UC) of a row

InitSignal ==
    \E n \in 0..MaxRows :
        \E dts \in [1..(n - 1) -> SignalSteps] :
            \E smp \in [1..n -> SignalSamples] :
                InitSignalOn(RowsOf(n, dts, [i \in 1..n |-> smp[i][1]],
                                    [i \in 1..n |-> smp[i][2]]))
NextSignal == Load \/ GetComponentCall
SpecSignal == InitSignal /\ [][NextSignal]_vars

\* Loading files whose timestamps repeat or run backwards.
DegenerateSteps == {-2000, -500, 0, 500}

InitDegenerate ==
    \E n \in 0..MaxRows :
        \E dts \in [1..(n - 1) -> DegenerateSteps] :
            InitSignalOn(RowsOf(n, dts, [i \in 1..n |-> 140], [i \in 1..n |-> 10]))
NextDegenerate == Load \/ GetComponentCall
SpecDegenerate == InitDegenerate /\ [][NextDegenerate]_vars

\* Event detection: every short Component over three FHR levels and three
\* time steps (repeated timestamps, runs of exactly min_duration, runs of
\* max_duration and more), and every Component of LenPairs samples over
\* two FHR levels and two time steps (two intervals in one list need eight
\* samples: the samples of the runs must be at most half of the samples for
\* the median to stay min_amplitude away from them).
DetectSteps == {0, 15, 60}
DetectFhr == {100, 150, 200}
PairSteps == {0, 60}
PairFhr == {100, 150}

InitDetect ==
    \/ \E n \in 1..MaxLenDetect :
        \E dts \in [1..(n - 1) -> DetectSteps] :
            \E fhr \in [1..n -> DetectFhr] :
                InitComponentOn(RowsOf(n, dts, fhr, [i \in 1..n |-> 0]))
    \/ \E dts \in [1..(LenPairs - 1) -> PairSteps] :
            \E fhr \in [1..LenPairs -> PairFhr] :
                InitComponentOn(RowsOf(LenPairs, dts, fhr, [i \in 1..LenPairs |-> 0]))
NextDetect == DetectEventsCall
SpecDetect == InitDetect /\ [][NextDetect]_vars

\* Event lists: the detection families, the long one also with a UC channel
\* that holds one contraction over the first half of the Component, peaking
\* at its end (PairUcLatePeak) or at its second sample (PairUcEarlyPeak), so
\* that the early and late lists can hold two decelerations.
PairUcFlat(n) == [i \in 1..n |-> 0]
PairUcLatePeak(n) ==
    [i \in 1..n |-> IF i < n \div 2 THEN 1 ELSE IF i = n \div 2 THEN 2 ELSE 0]
PairUcEarlyPeak(n) ==
    [i \in 1..n |-> IF i = 2 THEN 2 ELSE IF i <= n \div 2 THEN 1 ELSE 0]

InitLists ==
    \/ \E n \in 1..MaxLenDetect :
        \E dts \in [1..(n - 1) -> DetectSteps] :
            \E fhr \in [1..n -> DetectFhr] :
                InitComponentOn(RowsOf(n, dts, fhr, [i \in 1..n |-> 0]))
    \/ \E dts \in [1..(LenPairs - 1) -> PairSteps] :
            \E fhr \in [1..LenPairs -> PairFhr] :
                \E uc \in {PairUcFlat(LenPairs), PairUcLatePeak(LenPairs),
                           PairUcEarlyPeak(LenPairs)} :
                    InitComponentOn(RowsOf(LenPairs, dts, fhr, uc))
NextLists == DetectEventsCall
SpecLists == InitLists /\ [][NextLists]_vars

\* Early/late classification: every UC channel over three levels, against
\* an FHR channel at 150 bpm with one dip to 100 bpm, sampled every
\* ClassifyStep seconds.
ClassifyUc == {0, 1, 2}

InitClassifyOn(n) ==
    \E a \in 1..(n + 1) :
        \E b \in (a - 1)..n :
            \E uc \in [1..n -> ClassifyUc] :
                InitComponentOn(
                    RowsOf(n, [i \in 1..(n - 1) |-> ClassifyStep],
                           [i \in 1..n |-> IF a <= i /\ i <= b THEN 100 ELSE 150],
                           uc))

InitClassify == InitClassifyOn(LenClassify)
NextClassify == DetectEventsCall
SpecClassify == InitClassify /\ [][NextClassify]_vars

\* The same family over every length up to MaxLenShort.
InitClassifyShort == \E n \in 1..MaxLenShort : InitClassifyOn(n)
NextClassifyShort == DetectEventsCall
SpecClassifyShort == InitClassifyShort /\ [][NextClassifyShort]_vars

\* Contraction extraction: every UC channel over three levels and two time
\* steps.
ContrSteps == {0, 10}

InitContr ==
    \E n \in 1..MaxLenContr :
        \E dts \in [1..(n - 1) -> ContrSteps] :
            \E uc \in [1..n -> ClassifyUc] :
                InitComponentOn(RowsOf(n, dts, [i \in 1..n |-> 140], uc))
NextContr == DetectEventsCall
SpecContr == InitContr /\ [][NextContr]_vars

\* Metrics and diagnosis: every short Component over four valid FHR levels,
\* and over those together with zero and a negative sample.
DiagFhr == {100, 125, 150, 200}
DiagFhrInvalid == {-100, 0}

InitDiagOver(Vals) ==
    \E n \in 1..MaxLenDiag :
        \E fhr \in [1..n -> Vals] :
            InitComponentOn(RowsOf(n, [i \in 1..(n - 1) |-> ClassifyStep], fhr,
                                   [i \in 1..n |-> 0]))

InitDiag == InitDiagOver(DiagFhr) \/ InitDiagOver(DiagFhr \cup DiagFhrInvalid)
NextDiag == DetectEventsCall \/ GetAnalysisResultsCall
SpecDiag == InitDiag /\ [][NextDiag]_vars

\* Flat recordings: FHR constant at a level at or next to a threshold,
\* UC constant.
FlatFhr == {109, 110, 135, 160, 161}
FlatUc == {0, 30, 80}
FlatSteps == {0, 20, 60}

InitFlat ==
    \E n \in 1..MaxLenDiag :
        \E v \in FlatFhr, u \in FlatUc, dt \in FlatSteps :
            InitComponentOn(RowsOf(n, [i \in 1..(n - 1) |-> dt],
                                   [i \in 1..n |-> v], [i \in 1..n |-> u]))
NextFlat == DetectEventsCall \/ GetAnalysisResultsCall
SpecFlat == InitFlat /\ [][NextFlat]_vars

\* Repeated queries: every short Component over two FHR and three UC levels.
QueryFhr == {100, 150}
QueryUc == {0, 1, 2}

InitQueries ==
    \E n \in 1..MaxLenDiag :
        \E fhr \in [1..n -> QueryFhr], uc \in [1..n -> QueryUc] :
            InitComponentOn(RowsOf(n, [i \in 1..(n - 1) |-> ClassifyStep], fhr, uc))
NextQueries == DetectEventsCall \/ GetAnalysisResultsCall \/ DiagnoseConditionCall
SpecQueries == InitQueries /\ [][NextQueries]_vars

(***************************************************************************)
(* The CTGAnalyzerApp window (src/CTGAnalyzerApp.py).  app holds the       *)
(* window's signal, its current_component_index and the number of rows of  *)
(* toggle_model; result holds what the window's last                       *)
(* self.signal.get_component call returned or raised.  A handler in which  *)
(* a call raises stops at that call: the assignments made before it stay.  *)
(***************************************************************************)
\* CTGAnalyzerApp.__init__
NewApp == [signal |-> None, current_component_index |-> 0, toggle_rows |-> 0]

\* Signal(filename) on a file holding rows: the Signal, or the exception raised
NewSignal(rows) ==
    LET rate == EstimateSamplingRate(rows)
        made == CreateComponents(rows, rate, component_duration)
    IN  IF made.raised = ""
        THEN [kind |-> "Signal", data |-> rows, sampling_rate |-> rate,
              components |-> made.components]
        ELSE [kind |-> made.raised]

\* The files the dialog can return: evenly sampled recordings.
AppSteps == {0, 250, 1000}

AppFiles ==
    {RowsOf(Len(smp), [i \in 1..(Len(smp) - 1) |-> dt],
            [i \in 1..Len(smp) |-> smp[i][1]], [i \in 1..Len(smp) |-> smp[i][2]]) :
        dt \in AppSteps,
        smp \in UNION {[1..n -> SignalSamples] : n \in 0..MaxRows}}

\* The window after CTGAnalyzerApp.__init__
InitApp ==
    /\ data = <<>>
    /\ status = "unloaded"
    /\ sampling_rate = None
    /\ components = <<>>
    /\ result = None
    /\ self = None
    /\ events = None
    /\ analysis = None
    /\ diagnosis = None
    /\ app = NewApp

\* load_ctg_file: the dialog is cancelled (chosen = FALSE) or returns a file.
\* Signal(filename) raising leaves the window as it was; otherwise the
\* toggle list is filled, the index is reset and plot_current_component
\* calls get_component(0).
LoadCtgFile ==
    /\ app # None
    /\ \E chosen \in BOOLEAN, rows \in AppFiles :
        LET made == NewSignal(rows)
        IN  IF ~chosen \/ made.kind # "Signal"
            THEN UNCHANGED <<app, result>>
            ELSE /\ app' = [signal |-> made,
                            current_component_index |-> 0,
                            toggle_rows |-> GetTotalComponents(made.components)]
                 /\ result' = GetComponent(made.components, 0)
    /\ UNCHANGED <<data, status, sampling_rate, components, self, events, analysis,
                   diagnosis>>

\* switch_component(index): a click on a row of the toggle list
SwitchComponent ==
    /\ app # None
    /\ \E row \in 0..(app.toggle_rows - 1) :
        /\ app' = [app EXCEPT !.current_component_index = row]
        /\ result' = GetComponent(app.signal.components, row)
    /\ UNCHANGED <<data, status, sampling_rate, components, self, events, analysis,
                   diagnosis>>

\* next_component
NextComponent ==
    /\ app # None
    /\ IF /\ app.signal # None
          /\ app.current_component_index
                < GetTotalComponents(app.signal.components) - 1
       THEN /\ app' = [app EXCEPT !.current_component_index = @ + 1]
            /\ result' = GetComponent(app.signal.components,
                                      app.current_component_index + 1)
       ELSE UNCHANGED <<app, result>>
    /\ UNCHANGED <<data, status, sampling_rate, components, self, events, analysis,
                   diagnosis>>

\* previous_component
PreviousComponent ==
    /\ app # None
    /\ IF app.signal # None /\ app.current_component_index > 0
       THEN /\ app' = [app EXCEPT !.current_component_index = @ - 1]
            /\ result' = GetComponent(app.signal.components,
                                      app.current_component_index - 1)
       ELSE UNCHANGED <<app, result>>
    /\ UNCHANGED <<data, status, sampling_rate, components, self, events, analysis,
                   diagnosis>>

NextApp == LoadCtgFile \/ SwitchComponent \/ NextComponent \/ PreviousComponent
SpecApp == InitApp /\ [][NextApp]_vars

(***************************************************************************)
(* Vocabulary of the properties.                                           *)
(***************************************************************************)
EventsDone == events # None
AnalysisDone == analysis # None

Count(L, x) == Cardinality({i \in 1..Len(L) : L[i] = x})

\* ascending by start time
SortedByStart(L) == \A i \in 1..(Len(L) - 1) : L[i][1] <= L[i + 1][1]

\* no interval starts before an interval listed before it has ended
\* (consecutive intervals may share an endpoint)
NonOverlapping(L) ==
    \A i \in 1..Len(L) : \A j \in (i + 1)..Len(L) : L[i][2] <= L[j][1]

ProperIntervals(L) == \A i \in 1..Len(L) : L[i][1] < L[i][2]

DurationInBounds(L) ==
    \A i \in 1..Len(L) :
        min_duration <= L[i][2] - L[i][1] /\ L[i][2] - L[i][1] < max_duration

\* the contractions of c that overlap deceleration d, by position
OverlappingContractions(c, d) ==
    {k \in 1..Len(c.contractions) :
        d[1] <= c.contractions[k][3] /\ d[2] >= c.contractions[k][1]}

FirstOverlapping(c, d) ==
    CHOOSE k \in OverlappingContractions(c, d) :
        \A m \in OverlappingContractions(c, d) : k <= m

\* the maximal runs <<a, b>> of consecutive samples meeting a criterion
MaximalRuns(c, accel) ==
    LET n == Len(c.fetal_heart_rate)
        baseline2 == Median2(c.fetal_heart_rate)
        meets == [i \in 1..n |->
                    IF accel THEN AccelCriterion(c.fetal_heart_rate[i], baseline2)
                             ELSE DecelCriterion(c.fetal_heart_rate[i], baseline2)]
    IN  {r \in (1..n) \X (1..n) :
            /\ r[1] <= r[2]
            /\ \A i \in r[1]..r[2] : meets[i]
            /\ (r[1] = 1 \/ ~meets[r[1] - 1])
            /\ (r[2] = n \/ ~meets[r[2] + 1])}

RunDuration(c, r) == c.time[r[2]] - c.time[r[1]]

QualifyingRuns(c, accel) ==
    {r \in MaximalRuns(c, accel) :
        min_duration <= RunDuration(c, r) /\ RunDuration(c, r) < max_duration}

(***************************************************************************)
(* C1: the early_decelerations and late_decelerations lists of one         *)
(* detect_events call are disjoint: no deceleration interval is in both.   *)
(* Fails on the code: see C1_Shared.                                       *)
(***************************************************************************)
C1_EarlyLateDisjoint ==
    EventsDone =>
        Range(events.values.early_decelerations)
            \cap Range(events.values.late_decelerations) = {}

(***************************************************************************)
(* C2: every contraction triple built at construction has                  *)
(* start_time < peak_time < end_time, and the triples are sorted ascending *)
(* by start_time and pairwise non-overlapping, also for a contraction      *)
(* still open at the last sample.  Fails on the code: a contraction open   *)
(* at the last sample whose peak is the last sample has peak = end.        *)
(***************************************************************************)
C2_ContractionTriplesOrdered ==
    LET L == self.contractions
    IN  /\ \A k \in 1..Len(L) : L[k][1] < L[k][2] /\ L[k][2] < L[k][3]
        /\ SortedByStart(L)
        /\ \A i \in 1..Len(L) : \A j \in (i + 1)..Len(L) : L[i][3] <= L[j][1]

(***************************************************************************)
(* C3: each of the four lists detect_events returns is sorted ascending by *)
(* start time, its intervals do not overlap (an interval never starts      *)
(* before the one before it ended), every interval has start < end, and    *)
(* every acceleration and deceleration lasts at least min_duration and     *)
(* less than max_duration.                                                 *)
(***************************************************************************)
C3_EventListsWellFormed ==
    EventsDone =>
        /\ \A L \in {events.values.accelerations, events.values.decelerations,
                    events.values.early_decelerations,
                    events.values.late_decelerations} :
                SortedByStart(L) /\ NonOverlapping(L) /\ ProperIntervals(L)
        /\ DurationInBounds(events.values.accelerations)
        /\ DurationInBounds(events.values.decelerations)

\* two late decelerations, the second starting at the very timestamp at
\* which the first ended
C3_Witness ==
    /\ EventsDone
    /\ Len(events.values.late_decelerations) = 2
    /\ events.values.late_decelerations[1][2] = events.values.late_decelerations[2][1]

(***************************************************************************)
(* C4: the overall verdict is the count of true factors among: baseline    *)
(* status not Normal, variability status of the Reduced/Low class,         *)
(* acceleration status "Concerning Late Accelerations", deceleration       *)
(* status not "No Decelerations"; 0 gives "Normal Fetal Condition", 1      *)
(* "Mild Concerns", 2 or 3 "Moderate Concerns", 4 "Significant Concerns".  *)
(* Fails on the code: the Low variability label is never counted.          *)
(***************************************************************************)
C4_ClaimedCount(d) ==
    Bool2Int(d.Baseline # "Normal")
    + Bool2Int(d.Variability \in {"Reduced Variability",
                                  "Low / Possible fetal distress"})
    + Bool2Int(d.Accelerations = "Concerning Late Accelerations")
    + Bool2Int(d.Decelerations # "No Decelerations")

C4_ClaimedVerdict(n) ==
    CASE n = 0 -> "Normal Fetal Condition"
      [] n = 1 -> "Mild Concerns"
      [] n \in {2, 3} -> "Moderate Concerns"
      [] n = 4 -> "Significant Concerns"

C4_VerdictCountsLowVariability ==
    AnalysisDone =>
        analysis.Results.Overall = C4_ClaimedVerdict(C4_ClaimedCount(analysis.Results))

(***************************************************************************)
(* C5: a deceleration is in early_decelerations exactly when the first     *)
(* contraction overlapping it has its peak at or after the deceleration's  *)
(* start, and in late_decelerations exactly when that first contraction's  *)
(* peak is before the start; later overlapping contractions never matter.  *)
(* Fails on the code: see C1_Shared.                                       *)
(***************************************************************************)
C5_FirstOverlapDecides ==
    EventsDone =>
        \A d \in Range(events.values.decelerations) :
            LET hit == OverlappingContractions(self, d) # {}
                peak == self.contractions[FirstOverlapping(self, d)][2]
            IN  /\ d \in Range(events.values.early_decelerations)
                        <=> (hit /\ d[1] <= peak)
                /\ d \in Range(events.values.late_decelerations)
                        <=> (hit /\ d[1] > peak)

(***************************************************************************)
(* C6: a loaded Signal with N rows and s >= 1 samples per segment has      *)
(* exactly floor(N / s) Components; Component k (0-based) holds rows       *)
(* k*s .. (k+1)*s - 1 in order with time, FHR and UC aligned; the last     *)
(* N mod s rows are in no Component.                                       *)
(***************************************************************************)
C6_S == SamplesPerComponent(sampling_rate, component_duration)

C6_SegmentsPartitionRows ==
    (status = "loaded" /\ C6_S >= 1) =>
        /\ Len(components) = Len(data) \div C6_S
        /\ \A k \in 0..(Len(components) - 1) :
            /\ Len(components[k + 1].time) = C6_S
            /\ \A j \in 1..C6_S :
                /\ components[k + 1].time[j] = data[k * C6_S + j].time
                /\ components[k + 1].fetal_heart_rate[j] = data[k * C6_S + j].FHR
                /\ components[k + 1].uterine_contraction[j] = data[k * C6_S + j].UC
            /\ Len(components[k + 1].fetal_heart_rate) = C6_S
            /\ Len(components[k + 1].uterine_contraction) = C6_S

\* two full segments and a discarded remainder
C6_Witness ==
    /\ status = "loaded"
    /\ C6_S >= 2
    /\ Len(components) >= 2
    /\ Len(data) % C6_S # 0

(***************************************************************************)
(* C7: get_component(index) returns Component number index when            *)
(* 0 <= index < T and fails with IndexError for every other index,         *)
(* negative ones included.  Fails on the code: a negative index down to    *)
(* -T counts from the end of the list.                                     *)
(***************************************************************************)
C7_IndexErrorOutsideRange ==
    result # None =>
        IF 0 <= result.index /\ result.index < Len(components)
        THEN result.kind = "Component" /\ result.value = components[result.index + 1]
        ELSE result.kind = "IndexError"

(***************************************************************************)
(* C8: every maximal run of consecutive samples that all meet the          *)
(* acceleration criterion and whose duration d has                         *)
(* min_duration <= d < max_duration is in the accelerations list exactly   *)
(* once, as (time of its first sample, time of its last sample); the same  *)
(* for decelerations.                                                      *)
(***************************************************************************)
C8_QualifyingRunsEmittedOnce ==
    EventsDone =>
        /\ \A r \in QualifyingRuns(self, TRUE) :
            Count(events.values.accelerations,
                  <<self.time[r[1]], self.time[r[2]]>>) = 1
        /\ \A r \in QualifyingRuns(self, FALSE) :
            Count(events.values.decelerations,
                  <<self.time[r[1]], self.time[r[2]]>>) = 1

\* a run of exactly min_duration that reaches the last sample
C8_Witness ==
    /\ EventsDone
    /\ \E r \in QualifyingRuns(self, TRUE) :
        /\ RunDuration(self, r) = min_duration
        /\ r[2] = Len(self.time)
        /\ <<self.time[r[1]], self.time[r[2]]>> \in Range(events.values.accelerations)

(***************************************************************************)
(* C9: every early and every late deceleration is an element of the        *)
(* decelerations list of the same call, each deceleration is at most once  *)
(* in each list, and a deceleration that overlaps no contraction is in     *)
(* neither list.                                                           *)
(***************************************************************************)
C9_EarlyLateWithinDecelerations ==
    EventsDone =>
        LET ev == events.values
        IN  /\ Range(ev.early_decelerations) \subseteq Range(ev.decelerations)
            /\ Range(ev.late_decelerations) \subseteq Range(ev.decelerations)
            /\ \A d \in Range(ev.decelerations) :
                /\ Count(ev.early_decelerations, d) <= 1
                /\ Count(ev.late_decelerations, d) <= 1
                /\ OverlappingContractions(self, d) = {} =>
                        /\ d \notin Range(ev.early_decelerations)
                        /\ d \notin Range(ev.late_decelerations)

\* contractions exist, yet the deceleration overlaps none of them
C9_Witness ==
    /\ EventsDone
    /\ Len(self.contractions) >= 1
    /\ \E d \in Range(events.values.decelerations) :
        OverlappingContractions(self, d) = {}

(***************************************************************************)
(* C10: calculate_short_term_variability leaves out every sample with      *)
(* bpm <= 0: with at least two positive samples its result is finite and   *)
(* is the short-term variability of the Component with the non-positive    *)
(* samples removed.  Fails on the code: every sample is converted.         *)
(***************************************************************************)
C10_PositiveSamples(c) ==
    [c EXCEPT !.fetal_heart_rate = SelectSeq(c.fetal_heart_rate, LAMBDA bpm : bpm > 0)]

C10_NonPositiveSamplesExcluded ==
    (AnalysisDone /\ Len(C10_PositiveSamples(self).fetal_heart_rate) >= 2) =>
        /\ analysis.values.ShortTermVariability.kind = "fin"
        /\ analysis.values.ShortTermVariability
                = CalculateShortTermVariability(C10_PositiveSamples(self))

(***************************************************************************)
(* C11: when the median of the consecutive timestamp differences is zero   *)
(* or negative, loading fails with DegenerateInputError during the         *)
(* sampling-rate estimation: no rate is returned, no Component is created  *)
(* and no Signal is produced.  Fails on the code: a zero median gives the  *)
(* rate +inf and OverflowError in _create_components; a negative median    *)
(* gives a negative rate, and loading raises ValueError or succeeds with   *)
(* no Components.                                                          *)
(***************************************************************************)
C11_MedianNotPositive ==
    Len(data) >= 2 /\ Median2(TimeDiffs(data)) <= 0

C11_DegenerateMedianAbortsLoad ==
    (status # "unloaded" /\ C11_MedianNotPositive) =>
        /\ status = "DegenerateInputError"
        /\ sampling_rate = None
        /\ components = <<>>

(***************************************************************************)
(* C12: a Signal produced by loading is segmented with the default         *)
(* duration of 120 s: every Component has exactly                          *)
(* floor(120 * sampling_rate) rows.  Fails on the code: __init__ passes    *)
(* 1000 to _create_components, so a Component has                          *)
(* floor(1000 * sampling_rate) rows.                                       *)
(***************************************************************************)
C12_SegmentsHaveDefaultLength ==
    status = "loaded" =>
        \A k \in 1..Len(components) :
            Len(components[k].time)
                = SamplesPerComponent(sampling_rate, default_component_duration)

(***************************************************************************)
(* C13: for a Component whose FHR samples all equal one value in           *)
(* [110, 160] and whose UC samples are all equal, the contraction list is  *)
(* empty, detect_events returns four empty lists, the baseline status is   *)
(* "Normal" and the overall verdict is "Normal Fetal Condition", although  *)
(* the short-term variability is 0.                                        *)
(***************************************************************************)
C13_Flat(c) ==
    /\ \E v \in threshold_low..threshold_high :
        \A i \in 1..Len(c.fetal_heart_rate) : c.fetal_heart_rate[i] = v
    /\ \A i, j \in 1..Len(c.uterine_contraction) :
        c.uterine_contraction[i] = c.uterine_contraction[j]

C13_FlatSegmentIsNormal ==
    (self # None /\ C13_Flat(self)) =>
        /\ self.contractions = <<>>
        /\ EventsDone =>
            /\ events.values.accelerations = <<>>
            /\ events.values.decelerations = <<>>
            /\ events.values.early_decelerations = <<>>
            /\ events.values.late_decelerations = <<>>
        /\ AnalysisDone =>
            /\ analysis.Results.Baseline = "Normal"
            /\ analysis.Results.Overall = "Normal Fetal Condition"

\* both queries answered on a flat Component at the lower threshold whose
\* short-term variability is 0
C13_Witness ==
    /\ self # None /\ C13_Flat(self)
    /\ EventsDone /\ AnalysisDone
    /\ self.fetal_heart_rate[1] = threshold_low
    /\ self.uterine_contraction[1] > 0
    /\ analysis.values.ShortTermVariability = Fin(0, 1)
    /\ analysis.Results.Variability = "Low / Possible fetal distress"

(***************************************************************************)
(* C14: detect_events, get_analysis_results and diagnose_condition never   *)
(* change a Component's time, FHR and UC arrays nor its contraction list,  *)
(* so after any sequence of these queries a further call of a query        *)
(* returns the value its previous call returned.                           *)
(***************************************************************************)
DiagnosisDone == diagnosis # None

C15_StrictlyIncreasing(t) == \A i \in 1..(Len(t) - 1) : t[i] < t[i + 1]

C15_RejectedRuns(c, accel) ==
    {r \in MaximalRuns(c, accel) :
        ~(min_duration <= RunDuration(c, r) /\ RunDuration(c, r) < max_duration)}

C15_RejectedRunNeverRetried ==
    (EventsDone /\ C15_StrictlyIncreasing(self.time)) =>
        \A accel \in BOOLEAN :
            LET L == IF accel THEN events.values.accelerations
                              ELSE events.values.decelerations
            IN  \A r \in C15_RejectedRuns(self, accel) :
                    \A i \in (r[1] + 1)..r[2] :
                        \A k \in 1..Len(L) : L[k][1] # self.time[i]

(***************************************************************************)
(* C16: in the window, after any sequence of load_ctg_file,                *)
(* next_component, previous_component and switch_component, every call of  *)
(* Signal.get_component is made with an index in                           *)
(* [0, get_total_components()); loading a source that yields no Component  *)
(* makes no out-of-range access.  Fails on the code: load_ctg_file calls   *)
(* get_component(0) on a Signal with no Components.                        *)
(***************************************************************************)
C16_GetComponentIndexInRange ==
    (app # None /\ result # None) =>
        /\ 0 <= result.index
        /\ result.index < GetTotalComponents(app.signal.components)
        /\ result.kind = "Component"

====
